---- MODULE Spec2Model ----
(***************************************************************************)
(* Model of the user endpoints of the NexaCred backend                     *)
(* (backend/Backend/controllers/userController.js) running against the     *)
(* Mongoose User collection whose schema is listed in README.md.           *)
(*                                                                         *)
(* Strings that the code inspects character by character (addresses,       *)
(* usernames, e-mails) are sequences of one-character strings.  A request  *)
(* body is a record; a field the client did not send is absent from the    *)
(* record's domain (JavaScript: undefined after destructuring).            *)
(***************************************************************************)
EXTENDS Integers, Sequences, FiniteSets, TLC

\* ------------------------------------------------------------------ bounds
MaxReq == 2
MaxTime == 2
MaxCalls == 1
MaxEvents == 1
MaxLogins == 2

\* ------------------------------------------------------- program constants
AddrHexLen == 40
SuffixLen == 8

\* ------------------------------------------------------------ characters
UpperChars == <<"A", "B", "C", "D", "E", "F", "G", "H", "I", "J", "K", "L", "M",
                "N", "O", "P", "Q", "R", "S", "T", "U", "V", "W", "X", "Y", "Z">>
LowerChars == <<"a", "b", "c", "d", "e", "f", "g", "h", "i", "j", "k", "l", "m",
                "n", "o", "p", "q", "r", "s", "t", "u", "v", "w", "x", "y", "z">>

HexChars == {"0", "1", "2", "3", "4", "5", "6", "7", "8", "9",
             "a", "b", "c", "d", "e", "f", "A", "B", "C", "D", "E", "F"}

UpperSet == {UpperChars[i] : i \in DOMAIN UpperChars}
LowerSet == {LowerChars[i] : i \in DOMAIN LowerChars}
LowerOf == [c \in UpperSet |-> LowerChars[CHOOSE i \in DOMAIN UpperChars : UpperChars[i] = c]]
UpperOf == [c \in LowerSet |-> UpperChars[CHOOSE i \in DOMAIN LowerChars : LowerChars[i] = c]]

toLowerChar(c) == IF c \in UpperSet THEN LowerOf[c] ELSE c
toUpperChar(c) == IF c \in LowerSet THEN UpperOf[c] ELSE c

\* String.prototype.toLowerCase
toLowerCase(s) == [i \in 1..Len(s) |-> toLowerChar(s[i])]

\* String.prototype.slice(-n): the last n characters (the whole string when shorter)
sliceLast(s, n) == IF Len(s) <= n THEN s ELSE SubSeq(s, Len(s) - n + 1, Len(s))

Fill(c, n) == [i \in 1..n |-> c]

\* the pattern with \w in place of the hex class
AddressRegexTest_AnyWordChar(s) ==
    /\ Len(s) = 2 + AddrHexLen
    /\ s[1] = "0"
    /\ s[2] = "x"

\* /^0x[a-fA-F0-9]{40}$/.test(s)
AddressRegexTest(s) ==
    /\ Len(s) = 2 + AddrHexLen
    /\ s[1] = "0"
    /\ s[2] = "x"
    /\ \A i \in 3..Len(s) : s[i] \in HexChars

\* /.+@.+\..+/.test(s)
EmailRegexTest(s) ==
    \E i \in 2..Len(s) :
        /\ s[i] = "@"
        /\ \E j \in (i + 2)..(Len(s) - 1) : s[j] = "."

\* ---------------------------------------------------------------- wallets
\* The signing keys of the clients and the address ethers reports for each
\* (mixed case, as the checksum form is).
Keys == {"K1", "K2"}

AddrOf(k) ==
    IF k = "K1"
    THEN <<"0", "x">> \o Fill("a", 16) \o Fill("B", AddrHexLen - SuffixLen - 16) \o Fill("c", SuffixLen)
    ELSE <<"0", "x">> \o Fill("d", 16) \o Fill("E", AddrHexLen - SuffixLen - 16) \o Fill("f", SuffixLen)

\* what recovery yields when the signed text is not the message presented:
\* an address no client holds
StrayAddr == <<"0", "x">> \o Fill("9", AddrHexLen)

UpperHex(a) == <<"0", "x">> \o [i \in 1..(Len(a) - 2) |-> toUpperChar(a[i + 2])]

\* ethers.verifyMessage(message, signature): the recovered address, or a throw
verifyMessage(message, signature) ==
    IF signature.kind = "malformed"
    THEN [threw |-> TRUE]
    ELSE [threw |-> FALSE,
          address |-> IF signature.text = message
                      THEN AddrOf(signature.signer)
                      ELSE StrayAddr]

\* bcrypt.hash / bcrypt.compare (the salt is inside the hash)
bcryptHash(password) == [algorithm |-> "bcrypt", of |-> password]
bcryptCompare(password, hash) == hash.of = password

\* Math.random().toString(36).substring(7): a short base-36 string
RandomPasswords == {"k3x9"}

\* ---------------------------------------------------------------- tokens
\* the expiresIn options of the two jwt.sign calls
WalletExpiresIn == <<"2", "4", "h">>
LoginExpiresIn == <<"1", "h">>

Digits == <<"0", "1", "2", "3", "4", "5", "6", "7", "8", "9">>
DigitSet == {Digits[i] : i \in DOMAIN Digits}
DigitValue == [c \in DigitSet |-> (CHOOSE i \in DOMAIN Digits : Digits[i] = c) - 1]

\* the decimal number a string of digits writes
RECURSIVE ParseInt(_)
ParseInt(s) ==
    IF s = <<>> THEN 0
    ELSE 10 * ParseInt(SubSeq(s, 1, Len(s) - 1)) + DigitValue[s[Len(s)]]

\* the seconds in one unit of a time span
UnitSeconds(u) ==
    IF u = "s" THEN 1
    ELSE IF u = "m" THEN 60
    ELSE IF u = "h" THEN 60 * 60
    ELSE IF u = "d" THEN 24 * 60 * 60
    ELSE 0

\* jsonwebtoken's reading of expiresIn: digits followed by a unit, in seconds; the
\* token's exp is its iat plus this
timespan(s) ==
    IF Len(s) >= 2 /\ \A i \in 1..(Len(s) - 1) : s[i] \in DigitSet
    THEN ParseInt(SubSeq(s, 1, Len(s) - 1)) * UnitSeconds(s[Len(s)])
    ELSE 0

\* ------------------------------------------------------------- the schema
WalletPrefix == <<"w", "a", "l", "l", "e", "t", "_">>
WalletMailDomain ==
    <<"@", "n", "e", "x", "a", "c", "r", "e", "d", ".", "w", "a", "l", "l", "e", "t">>

\* the placeholder values walletAuth gives the required profile fields
WalletProfile ==
    [firstName |-> "Wallet", lastName |-> "User", dateOfBirth |-> "1990-01-01",
     phoneNumber |-> "+919999999999", pan |-> "AAAAA0000A", aadhaar |-> "999999999999",
     streetAddress |-> "Web3 Address", areaLocality |-> "Blockchain", city |-> "Crypto",
     state |-> "Decentralized", pinCode |-> "000000", country |-> "Global",
     employmentStatus |-> "Self-employed Professional",
     occupationCategory |-> "Other Professional",
     companyName |-> "Decentralized Autonomous", yearsOfExperience |-> 1,
     monthlyIncomeRange |-> "50,000 - 1,00,000", hasCreditAccounts |-> FALSE,
     creditPurpose |-> "Personal Loan", hasBankAccount |-> TRUE,
     primaryBankName |-> "Crypto Bank", existingCreditScore |-> 650,
     termsAccepted |-> TRUE, privacyPolicyAccepted |-> TRUE,
     consentCreditBureau |-> TRUE, ageVerified |-> TRUE,
     itrStatus |-> "Filed ITR in past 2 years"]

\* the paths of the schema marked required: true, besides username, email, passwordHash
RequiredProfile == DOMAIN WalletProfile

HasWallet(doc) == "walletAddress" \in DOMAIN doc

\* schema setters run when a document is built: lowercase: true on email and walletAddress
SchemaCast(doc) ==
    [f \in DOMAIN doc |->
        IF f \in {"email", "walletAddress"} THEN toLowerCase(doc[f]) ELSE doc[f]]

\* a schema whose profile paths are not marked required
SchemaValid_OptionalProfile(doc) ==
    /\ {"username", "email", "passwordHash", "profile"} \subseteq DOMAIN doc
    /\ Len(doc.username) > 0
    /\ EmailRegexTest(doc.email)
    /\ "walletAddress" \in DOMAIN doc => AddressRegexTest(doc.walletAddress)

\* schema validation run by User.create before the insert
SchemaValid(doc) ==
    /\ {"username", "email", "passwordHash", "profile"} \subseteq DOMAIN doc
    /\ Len(doc.username) > 0
    /\ EmailRegexTest(doc.email)
    /\ RequiredProfile \subseteq DOMAIN doc.profile
    /\ HasWallet(doc) => AddressRegexTest(doc.walletAddress)

\* a collection whose unique indexes were never built
DuplicateKey_NoIndexes(coll, doc) == FALSE

\* a collection with the index on walletAddress alone
DuplicateKey_WalletIndexOnly(coll, doc) ==
    \E r \in coll : HasWallet(r) /\ HasWallet(doc) /\ r.walletAddress = doc.walletAddress

\* the unique indexes: username, email, and the sparse one on walletAddress
DuplicateKey(coll, doc) ==
    \E r \in coll :
        \/ r.username = doc.username
        \/ r.email = doc.email
        \/ HasWallet(r) /\ HasWallet(doc) /\ r.walletAddress = doc.walletAddress

\* User.findOne({ walletAddress }): the matching documents (one of them is returned)
FindByWallet(coll, address) == {r \in coll : HasWallet(r) /\ r.walletAddress = address}

\* the lookup made with the address as the client wrote it
WalletLookup_CaseSensitive(coll, walletAddress) == FindByWallet(coll, walletAddress)

\* line 157: the lookup walletAuth makes for the address it was given
WalletLookup(coll, walletAddress) == FindByWallet(coll, toLowerCase(walletAddress))

\* User.findOne({ $or: [{ email }, { username }] })
FindByEmailOrUsername(coll, email, username) ==
    {r \in coll : r.email = email \/ r.username = username}

\* ------------------------------------------------------------------ state
VARIABLES
    users,      \* the User collection: a set of documents
    nextId,     \* the next _id the store hands out
    now,        \* the time the clock showed when last read
    jwtSecret,  \* process.env.JWT_SECRET: TRUE when set
    reqs,       \* the requests received so far, in order of arrival
    hook,       \* the state of the useMetaMask hook in one browser tab
    wallet,     \* window.ethereum: the wallet extension behind the hook
    calls,      \* the connectWallet invocations, in order of their start
    inbox,      \* what the wallet has sent the page and the page has not yet handled
    app         \* the state of the App component, with localStorage

\* the browser side, which the server's handlers do not touch
frontend == <<hook, wallet, calls, inbox, app>>

vars == <<users, nextId, now, jwtSecret, reqs, hook, wallet, calls, inbox, app>>

Null == [null |-> TRUE]
NoResponse == [status |-> 0]

\* the times a reading of the clock may show: time does not run backwards
ClockReadings == {t \in {now, now + 1} : t <= MaxTime}

Done(r) == reqs[r].pc = "done"
DoneSet == {r \in DOMAIN reqs : Done(r)}

\* a request as the server holds it: the handler's position (pc), its local document
\* (user) and its response (res); and, for the record, how often it called the
\* verifier, the store calls it made with their outcomes (ops), how many lookups it
\* made, and the requests that had ended when it arrived (after)
NewRequest(kind, body, entry) ==
    [kind |-> kind, body |-> body, pc |-> entry.pc, user |-> Null, res |-> entry.res,
     verifierCalls |-> entry.verifierCalls, ops |-> {}, lookups |-> 0, after |-> DoneSet]

\* ------------------------------------------------------- request bodies
WellFormedAddrs ==
    {toLowerCase(AddrOf("K1")), UpperHex(AddrOf("K1")), toLowerCase(AddrOf("K2"))}

MalformedAddrs ==
    {<<"0", "x">> \o Fill("a", AddrHexLen - 1),             \* wrong length
     Fill("a", AddrHexLen),                                 \* no 0x
     <<"0", "x">> \o Fill("a", AddrHexLen - 1) \o <<"g">>}  \* not hex

WalletFields == {"walletAddress", "message", "signature"}

Signed(k) == [kind |-> "signed", signer |-> k, text |-> "Sign in to NexaCred"]

\* a body that is complete and honest: the wallet's own signature under its address
HonestBody(a, k) ==
    [walletAddress |-> a, message |-> "Sign in to NexaCred", signature |-> Signed(k)]

\* the sign-in each wallet makes under its own address, in lower case
HonestBodies == {HonestBody(toLowerCase(AddrOf(k)), k) : k \in Keys}

\* the first wallet's sign-in with its address in either letter case
FirstWalletBodies ==
    {HonestBody(a, "K1") : a \in {toLowerCase(AddrOf("K1")), UpperHex(AddrOf("K1"))}}

\* what clients post to /wallet-auth
WalletBodies ==
    \* honest requests: the first wallet in either letter case, and the second wallet
    {HonestBody(toLowerCase(AddrOf("K1")), "K1"),
     HonestBody(UpperHex(AddrOf("K1")), "K1"),
     HonestBody(toLowerCase(AddrOf("K2")), "K2")}
    \* the first wallet's address under a signature that cannot be parsed, under the
    \* second wallet's signature, and under its own signature of another text
    \cup {[HonestBody(toLowerCase(AddrOf("K1")), "K1") EXCEPT !.signature = s] :
             s \in {[kind |-> "malformed"], Signed("K2"),
                    [kind |-> "signed", signer |-> "K1", text |-> "Approve transfer"]}}
    \* a malformed address
    \cup {HonestBody(a, "K1") : a \in MalformedAddrs}
    \* a field left out
    \cup {[f \in WalletFields \ {g} |-> HonestBody(toLowerCase(AddrOf("K1")), "K1")[f]] :
             g \in WalletFields}

\* the falsy value of each field's type
Empty(f) ==
    IF f = "walletAddress" THEN <<>>
    ELSE IF f = "message" THEN ""
    ELSE [kind |-> "empty"]

\* !x for a request field: undefined, or the empty string
Missing(body, f) == f \notin DOMAIN body \/ body[f] = Empty(f)

\* ------------------------------------------------------------- walletAuth
\* the mismatch branch without its return
SignatureRejected_NoReturn(body) == FALSE

\* lines 146-154: TRUE when the handler returns 400 "Invalid signature"
SignatureRejected(body) ==
    LET v == verifyMessage(body.message, body.signature)
    IN  IF v.threw
        THEN FALSE   \* the catch block logs a warning and lets the request through
        ELSE toLowerCase(v.address) # toLowerCase(body.walletAddress)

\* the handler without the check of line 135: a missing address fails the pattern,
\* a missing message or signature makes the verifier throw, which the catch lets pass
WalletAuthEntry_NoRequiredCheck(body) ==
    IF "walletAddress" \notin DOMAIN body \/ ~AddressRegexTest(body.walletAddress)
    THEN [pc |-> "done", verifierCalls |-> 0,
          res |-> [status |-> 400, body |-> [error |-> "Invalid wallet address format"]]]
    ELSE IF {"message", "signature"} \subseteq DOMAIN body /\ SignatureRejected(body)
    THEN [pc |-> "done", verifierCalls |-> 1,
          res |-> [status |-> 400, body |-> [error |-> "Invalid signature"]]]
    ELSE [pc |-> "findOne", verifierCalls |-> 1, res |-> NoResponse]

\* lines 133-157: the handler up to its first await
WalletAuthEntry(body) ==
    IF \E f \in WalletFields : Missing(body, f)
    THEN [pc |-> "done", verifierCalls |-> 0,
          res |-> [status |-> 400,
                   body |-> [error |-> "Wallet address, message, and signature are required"]]]
    ELSE IF ~AddressRegexTest(body.walletAddress)
    THEN [pc |-> "done", verifierCalls |-> 0,
          res |-> [status |-> 400, body |-> [error |-> "Invalid wallet address format"]]]
    ELSE IF SignatureRejected(body)
    THEN [pc |-> "done", verifierCalls |-> 1,
          res |-> [status |-> 400, body |-> [error |-> "Invalid signature"]]]
    ELSE [pc |-> "findOne", verifierCalls |-> 1, res |-> NoResponse]

ServerError == [error |-> "Server error during wallet authentication"]

\* lines 165-201: the document walletAuth asks the store to create
NewWalletUser(walletAddress, password, t) ==
    [username |-> WalletPrefix \o toLowerCase(sliceLast(walletAddress, SuffixLen)),
     email |-> toLowerCase(walletAddress) \o WalletMailDomain,
     passwordHash |-> bcryptHash(password),
     walletAddress |-> toLowerCase(walletAddress),
     walletConnectedAt |-> t,
     lastWalletActivity |-> t,
     profile |-> WalletProfile]

\* a response that carries the document as loginUser's does (line 69)
SessionFor_WholeDocument(user) ==
    [token |-> [userId |-> user._id, username |-> user.username, email |-> user.email,
                walletAddress |-> user.walletAddress, expiresIn |-> WalletExpiresIn],
     user |-> user]

\* a wallet token signed with the option loginUser passes
SessionFor_LoginExpiry(user) ==
    [token |-> [userId |-> user._id, username |-> user.username, email |-> user.email,
                walletAddress |-> user.walletAddress, expiresIn |-> LoginExpiresIn],
     user |-> [_id |-> user._id, username |-> user.username, email |-> user.email,
               walletAddress |-> user.walletAddress,
               firstName |-> user.profile.firstName, lastName |-> user.profile.lastName,
               walletConnectedAt |-> user.walletConnectedAt]]

\* a response that writes the address in upper-case hex digits
SessionFor_UpperCaseAddress(user) ==
    [token |-> [userId |-> user._id, username |-> user.username, email |-> user.email,
                walletAddress |-> user.walletAddress, expiresIn |-> WalletExpiresIn],
     user |-> [_id |-> user._id, username |-> user.username, email |-> user.email,
               walletAddress |-> UpperHex(user.walletAddress),
               firstName |-> user.profile.firstName, lastName |-> user.profile.lastName,
               walletConnectedAt |-> user.walletConnectedAt]]

\* lines 209-231: the token and the response built from the handler's document
SessionFor(user) ==
    [token |-> [userId |-> user._id, username |-> user.username, email |-> user.email,
                walletAddress |-> user.walletAddress, expiresIn |-> WalletExpiresIn],
     user |-> [_id |-> user._id, username |-> user.username, email |-> user.email,
               walletAddress |-> user.walletAddress,
               firstName |-> user.profile.firstName, lastName |-> user.profile.lastName,
               walletConnectedAt |-> user.walletConnectedAt]]

\* a jwt.sign that throws whatever the secret (an option it does not accept)
IssueSession_SignThrows(r, user, call, effect) ==
    [reqs EXCEPT ![r].pc = "done", ![r].user = user, ![r].ops = @ \cup {call, effect},
                 ![r].res = [status |-> 500, body |-> ServerError]]

\* lines 208-235: jwt.sign throws when the secret is not set
IssueSession(r, user, call, effect) ==
    IF jwtSecret
    THEN [reqs EXCEPT ![r].pc = "done", ![r].user = user, ![r].ops = @ \cup {call, effect},
                      ![r].res = [status |-> 200, body |-> SessionFor(user)]]
    ELSE [reqs EXCEPT ![r].pc = "done", ![r].user = user, ![r].ops = @ \cup {call, effect},
                      ![r].res = [status |-> 500, body |-> ServerError]]

\* a handler without the outer try and catch: the rejection is not handled and no
\* response is sent
Fail_Unhandled(r, op, why) ==
    [reqs EXCEPT ![r].pc = "lost", ![r].ops = @ \cup {op, why}]

\* a store call that rejects, or a document the store refuses: the catch at 232-235
Fail(r, op, why) ==
    [reqs EXCEPT ![r].pc = "done", ![r].ops = @ \cup {op, why},
                 ![r].res = [status |-> 500, body |-> ServerError]]

\* POST /wallet-auth arrives: lines 131-157
WalletAuth(body) ==
    /\ Len(reqs) < MaxReq
    /\ reqs' = Append(reqs, NewRequest("walletAuth", body, WalletAuthEntry(body)))
    /\ UNCHANGED <<users, nextId, now, jwtSecret, frontend>>

\* line 157: the store answers User.findOne({ walletAddress })
WalletFindOne(r, ok) ==
    /\ reqs[r].kind = "walletAuth"
    /\ reqs[r].pc = "findOne"
    /\ LET found == WalletLookup(users, reqs[r].body.walletAddress)
       IN  IF ~ok
           THEN reqs' = [Fail(r, "findOne", "fault") EXCEPT ![r].lookups = @ + 1]
           ELSE IF found = {}
           THEN reqs' = [reqs EXCEPT ![r].pc = "hash", ![r].lookups = @ + 1,
                                     ![r].ops = @ \cup {"findOne", "miss"}]
           ELSE \E u \in found :
                   reqs' = [reqs EXCEPT ![r].pc = "touch", ![r].user = u,
                                        ![r].lookups = @ + 1,
                                        ![r].ops = @ \cup {"findOne", "hit"}]
    /\ UNCHANGED <<users, nextId, now, jwtSecret, frontend>>

\* lines 161-201: the password is hashed and User.create is called
WalletHash(r, password, t) ==
    /\ reqs[r].kind = "walletAuth"
    /\ reqs[r].pc = "hash"
    /\ now' = t
    /\ reqs' = [reqs EXCEPT ![r].pc = "create",
                            ![r].user = NewWalletUser(reqs[r].body.walletAddress, password, t)]
    /\ UNCHANGED <<users, nextId, jwtSecret, frontend>>

\* an insert that does not consult the unique indexes
UserCreate_NoUniqueCheck(coll, doc, id) ==
    LET cast == SchemaCast(doc)
    IN  IF ~SchemaValid(cast) THEN [error |-> "ValidationError"]
        ELSE [error |-> "none", saved |-> cast @@ [_id |-> id]]

\* User.create(doc): cast, validate, insert under the unique indexes
UserCreate(coll, doc, id) ==
    LET cast == SchemaCast(doc)
    IN  IF ~SchemaValid(cast) THEN [error |-> "ValidationError"]
        ELSE IF DuplicateKey(coll, cast) THEN [error |-> "E11000"]
        ELSE [error |-> "none", saved |-> cast @@ [_id |-> id]]

\* a handler whose update (lines 204-205) is not in the else branch: it runs after
\* the creation too
WalletCreate_ThenTouch(r, ok) ==
    /\ reqs[r].kind = "walletAuth"
    /\ reqs[r].pc = "create"
    /\ LET out == UserCreate(users, reqs[r].user, nextId)
       IN  IF ~ok
           THEN reqs' = Fail(r, "create", "fault") /\ UNCHANGED <<users, nextId>>
           ELSE IF out.error # "none"
           THEN reqs' = Fail(r, "create", out.error) /\ UNCHANGED <<users, nextId>>
           ELSE /\ users' = users \cup {out.saved}
                /\ nextId' = nextId + 1
                /\ reqs' = [reqs EXCEPT ![r].pc = "touch", ![r].user = out.saved,
                                        ![r].ops = @ \cup {"create", "created"}]
    /\ UNCHANGED <<now, jwtSecret, frontend>>

\* lines 165-201 and on to 231: the store answers User.create
WalletCreate(r, ok) ==
    /\ reqs[r].kind = "walletAuth"
    /\ reqs[r].pc = "create"
    /\ LET out == UserCreate(users, reqs[r].user, nextId)
       IN  IF ~ok
           THEN reqs' = Fail(r, "create", "fault") /\ UNCHANGED <<users, nextId>>
           ELSE IF out.error # "none"
           THEN reqs' = Fail(r, "create", out.error) /\ UNCHANGED <<users, nextId>>
           ELSE /\ users' = users \cup {out.saved}
                /\ nextId' = nextId + 1
                /\ reqs' = IssueSession(r, out.saved, "create", "created")
    /\ UNCHANGED <<now, jwtSecret, frontend>>

\* line 204: user.lastWalletActivity = new Date(); the path counts as modified
\* when the new date differs from the loaded one
WalletTouch(r, t) ==
    /\ reqs[r].kind = "walletAuth"
    /\ reqs[r].pc = "touch"
    /\ now' = t
    /\ reqs' = [reqs EXCEPT ![r].pc = "save", ![r].user.lastWalletActivity = t,
                            ![r].ops = IF t # reqs[r].user.lastWalletActivity
                                       THEN @ \cup {"modified"} ELSE @]
    /\ UNCHANGED <<users, nextId, jwtSecret, frontend>>

\* a save that also stamps walletConnectedAt
SaveActivity_AlsoConnectedAt(coll, user) ==
    {IF d._id = user._id
     THEN [d EXCEPT !.lastWalletActivity = user.lastWalletActivity,
                    !.walletConnectedAt = user.lastWalletActivity]
     ELSE d : d \in coll}

\* a save that writes the loaded document under a fresh key beside the stored one
SaveActivity_InsertsCopy(coll, user) ==
    coll \cup {[user EXCEPT !._id = user._id + MaxReq + 1]}

\* user.save() of a loaded document: only the modified path is written (line 205)
SaveActivity(coll, user) ==
    {IF d._id = user._id
     THEN [d EXCEPT !.lastWalletActivity = user.lastWalletActivity]
     ELSE d : d \in coll}

\* line 205 and on to 231: the store answers user.save(), which writes nothing when
\* no path was modified
WalletSave(r, ok) ==
    /\ reqs[r].kind = "walletAuth"
    /\ reqs[r].pc = "save"
    /\ IF ~ok
       THEN reqs' = Fail(r, "save", "fault") /\ UNCHANGED users
       ELSE /\ users' = IF "modified" \in reqs[r].ops
                         THEN SaveActivity(users, reqs[r].user)
                         ELSE users
            /\ reqs' = IssueSession(r, reqs[r].user, "save", "updated")
    /\ UNCHANGED <<nextId, now, jwtSecret, frontend>>

\* ----------------------------------------------------------- registerUser
Alice == <<"a", "l", "i", "c", "e">>
AliceMail == <<"a", "l", "i", "c", "e", "@", "x", ".", "i", "o">>

\* a profile form that leaves a required field out
PartialProfile == [f \in RequiredProfile \ {"pan"} |-> WalletProfile[f]]

\* what a client may post to /register; the second username is the placeholder name
\* walletAuth would give the first wallet
RegisterBodies ==
    {[username |-> Alice, email |-> AliceMail, password |-> "hunter2", profile |-> p] :
        p \in {WalletProfile, PartialProfile}}
    \cup {[username |-> WalletPrefix \o Fill("c", SuffixLen), email |-> AliceMail,
           password |-> "hunter2", profile |-> WalletProfile]}

\* POST /register arrives: lines 10-22
RegisterUser(body) ==
    /\ Len(reqs) < MaxReq
    /\ reqs' = Append(reqs, NewRequest("registerUser", body,
                   [pc |-> "findOne", verifierCalls |-> 0, res |-> NoResponse]))
    /\ UNCHANGED <<users, nextId, now, jwtSecret, frontend>>

\* lines 22-40: the store answers the lookup; the password is hashed
RegisterFindOne(r, ok) ==
    /\ reqs[r].kind = "registerUser"
    /\ reqs[r].pc = "findOne"
    /\ LET body == reqs[r].body
           existing == FindByEmailOrUsername(users, body.email, body.username)
       IN  IF ~ok
           THEN reqs' = [reqs EXCEPT ![r].pc = "done", ![r].ops = @ \cup {"findOne", "fault"},
                             ![r].res = [status |-> 500, body |-> [error |-> "Server error"]]]
           ELSE IF existing # {}
           THEN reqs' = [reqs EXCEPT ![r].pc = "done", ![r].ops = @ \cup {"findOne"},
                             ![r].res = [status |-> 400,
                                         body |-> [error |-> "Username or Email already exists"]]]
           ELSE reqs' = [reqs EXCEPT ![r].pc = "create", ![r].ops = @ \cup {"findOne"},
                             ![r].user = [username |-> body.username, email |-> body.email,
                                          passwordHash |-> bcryptHash(body.password),
                                          profile |-> body.profile]]
    /\ UNCHANGED <<users, nextId, now, jwtSecret, frontend>>

\* lines 32-46: the store answers User.create
RegisterCreate(r, ok) ==
    /\ reqs[r].kind = "registerUser"
    /\ reqs[r].pc = "create"
    /\ LET out == UserCreate(users, reqs[r].user, nextId)
       IN  IF ~ok \/ out.error # "none"
           THEN /\ reqs' = [reqs EXCEPT ![r].pc = "done",
                                ![r].ops = @ \cup {"create", IF ok THEN out.error ELSE "fault"},
                                ![r].res = [status |-> 500, body |-> [error |-> "Server error"]]]
                /\ UNCHANGED <<users, nextId>>
           ELSE /\ users' = users \cup {out.saved}
                /\ nextId' = nextId + 1
                /\ reqs' = [reqs EXCEPT ![r].pc = "done", ![r].user = out.saved,
                                ![r].ops = @ \cup {"create", "created"},
                                ![r].res = [status |-> 201,
                                            body |-> [message |-> "User registered successfully",
                                                      user |-> out.saved]]]
    /\ UNCHANGED <<now, jwtSecret, frontend>>

\* -------------------------------------------------------------- loginUser
\* what a client may post to /login: the registered name and the name walletAuth
\* gives the first wallet, each under the registered password, under a string the
\* random generator can yield, and under another
LoginBodies ==
    {[username |-> n, password |-> p] :
        n \in {Alice, WalletPrefix \o Fill("c", SuffixLen)},
        p \in {"hunter2", "wrong"} \cup RandomPasswords}

\* User.findOne({ username })
FindByUsername(coll, username) == {u \in coll : u.username = username}

\* lines 59-69: the token and the response of loginUser; the response carries the
\* document as loaded
LoginSessionFor(user) ==
    [token |-> [userId |-> user._id, username |-> user.username, email |-> user.email,
                expiresIn |-> LoginExpiresIn],
     user |-> user]

\* POST /login arrives: lines 50-53
LoginUser(body) ==
    /\ Len(reqs) < MaxReq
    /\ reqs' = Append(reqs, NewRequest("loginUser", body,
                   [pc |-> "findOne", verifierCalls |-> 0, res |-> NoResponse]))
    /\ UNCHANGED <<users, nextId, now, jwtSecret, frontend>>

\* lines 53-72: the store answers the lookup; the comparison and the signing that
\* follow touch nothing but the document just loaded
LoginFindOne(r, ok) ==
    /\ reqs[r].kind = "loginUser"
    /\ reqs[r].pc = "findOne"
    /\ LET body == reqs[r].body
           found == FindByUsername(users, body.username)
           invalid == [status |-> 400, body |-> [error |-> "Invalid credentials"]]
           failed == [status |-> 500, body |-> [error |-> "Server error"]]
       IN  IF ~ok
           THEN reqs' = [reqs EXCEPT ![r].pc = "done", ![r].ops = @ \cup {"findOne", "fault"},
                                     ![r].res = failed]
           ELSE IF found = {}
           THEN reqs' = [reqs EXCEPT ![r].pc = "done", ![r].ops = @ \cup {"findOne", "miss"},
                                     ![r].res = invalid]
           ELSE \E u \in found :
                   reqs' = [reqs EXCEPT
                               ![r].pc = "done", ![r].user = u,
                               ![r].ops = @ \cup {"findOne", "hit"},
                               ![r].res = IF ~bcryptCompare(body.password, u.passwordHash)
                                          THEN invalid
                                          ELSE IF ~jwtSecret THEN failed
                                          ELSE [status |-> 200, body |-> LoginSessionFor(u)]]
    /\ UNCHANGED <<users, nextId, now, jwtSecret, frontend>>

\* ------------------------------------------------------------ useMetaMask
\* null, where the hook holds an address
NoAccount == <<>>

\* lines 5-12: the hook's state at the first render
HookInitial ==
    [isConnected |-> FALSE, account |-> NoAccount, balance |-> "0", chainId |-> "null",
     provider |-> FALSE, signer |-> NoAccount, isLoading |-> FALSE, error |-> "null"]

\* lines 15-20: two of the networks the hook knows
Chains == {"0x1", "0x89"}

\* an account as the wallet names it in eth_accounts and accountsChanged: lower case
Reported(k) == toLowerCase(AddrOf(k))

\* signer.getAddress(): the checksum form of the account the signer was made for
getAddress(reported) == AddrOf(CHOOSE k \in Keys : Reported(k) = reported)

\* the page's side as one value, for the operators below
Page == [hook |-> hook, wallet |-> wallet, calls |-> calls, inbox |-> inbox]

Becomes(s) ==
    /\ hook' = s.hook
    /\ wallet' = s.wallet
    /\ calls' = s.calls
    /\ inbox' = s.inbox

\* the wallet's answer to a request of call c (0: not a connectWallet call)
Reply(c, method, result) ==
    [type |-> "response", call |-> c, method |-> method, result |-> result]

\* window.ethereum.request({ method: 'eth_requestAccounts' }) by call c: granted at
\* once when the site is authorised, refused when a prompt is already open, and
\* otherwise a prompt the user has to answer
requestAccounts(s, c) ==
    IF s.wallet.accounts # <<>>
    THEN [s EXCEPT !.inbox = Append(@, Reply(c, "eth_requestAccounts", "granted"))]
    ELSE IF s.wallet.prompt # 0
    THEN [s EXCEPT !.inbox = Append(@, Reply(c, "eth_requestAccounts", "pending"))]
    ELSE [s EXCEPT !.wallet.prompt = c]

\* lines 56-67: connectWallet up to its first await
connectWallet(s, by) ==
    IF ~s.wallet.installed
    THEN [s EXCEPT !.hook.error =
                       "MetaMask is not installed. Please install MetaMask to continue."]
    ELSE requestAccounts(
             [s EXCEPT !.hook.isLoading = TRUE, !.hook.error = "null",
                       !.calls = Append(@, [pc |-> "request", address |-> NoAccount,
                                            by |-> by, cut |-> FALSE])],
             Len(s.calls) + 1)

\* a reset that leaves out setSigner(null)
disconnectWallet_KeepsSigner(s) ==
    [s EXCEPT !.hook.isConnected = FALSE, !.hook.account = NoAccount,
              !.hook.balance = "0", !.hook.chainId = "null", !.hook.provider = FALSE,
              !.hook.error = "null"]

\* lines 100-108; for the record, the connectWallet calls under way are marked as
\* overtaken by a disconnect (cut)
disconnectWallet(s) ==
    [s EXCEPT !.hook.isConnected = FALSE, !.hook.account = NoAccount,
              !.hook.balance = "0", !.hook.chainId = "null", !.hook.provider = FALSE,
              !.hook.signer = NoAccount, !.hook.error = "null",
              !.calls = [c \in DOMAIN @ |->
                            IF @[c].pc # "done" THEN [@[c] EXCEPT !.cut = TRUE] ELSE @[c]]]

\* a handler that resets on an empty list and otherwise does nothing
handleAccountsChanged_NoReconnect(s, accounts) ==
    IF Len(accounts) = 0 THEN disconnectWallet(s) ELSE s

\* lines 176-182
handleAccountsChanged(s, accounts) ==
    IF Len(accounts) = 0 THEN disconnectWallet(s)
    ELSE IF accounts[1] # s.hook.account THEN connectWallet(s, "accountsChanged")
    ELSE s

\* lines 43-53, 184-189: setChainId, and updateBalance when connected
handleChainChanged(s, chainId) ==
    IF s.hook.provider /\ s.hook.account # NoAccount
    THEN [s EXCEPT !.hook.chainId = chainId,
                   !.inbox = Append(@, Reply(0, "eth_getBalance", "1.2500"))]
    ELSE [s EXCEPT !.hook.chainId = chainId]

\* eth_accounts: the accounts the site is authorised for, the selected one first
ReportedAccounts(w) == [i \in DOMAIN w.accounts |-> Reported(w.accounts[i])]

\* lines 67-96 and 159-162: what the page does when the wallet's answer m arrives
resume(s, m) ==
    LET c == m.call
    IN  IF c = 0 /\ m.method = "eth_accounts"
        THEN \* autoConnect, lines 159-162
             IF Len(m.result) > 0 THEN connectWallet(s, "autoConnect") ELSE s
        ELSE IF c = 0
        THEN \* updateBalance called by handleChainChanged, line 47
             [s EXCEPT !.hook.balance = m.result]
        ELSE IF m.method = "eth_requestAccounts" /\ m.result = "granted"
        THEN \* line 70: getSigner asks for the accounts
             [s EXCEPT !.calls[c].pc = "signer",
                       !.inbox = Append(@, Reply(c, "eth_accounts", ReportedAccounts(s.wallet)))]
        ELSE IF m.method = "eth_requestAccounts"
        THEN \* lines 84-96: the catch and the finally
             [s EXCEPT !.calls[c].pc = "done",
                       !.hook.error = IF m.result = "rejected"
                                      THEN "Connection rejected by user"
                                      ELSE "Connection request already pending",
                       !.hook.isLoading = FALSE]
        ELSE IF m.method = "eth_accounts" /\ Len(m.result) = 0
        THEN \* getSigner finds no account and asks for access itself
             requestAccounts([s EXCEPT !.calls[c].pc = "request"], c)
        ELSE IF m.method = "eth_accounts"
        THEN \* lines 70-72: the signer of the first account; getNetwork is asked
             [s EXCEPT !.calls[c].pc = "network",
                       !.calls[c].address = getAddress(m.result[1]),
                       !.inbox = Append(@, Reply(c, "eth_chainId", s.wallet.chain))]
        ELSE IF m.method = "eth_chainId"
        THEN \* lines 74-81: the five setters, then updateBalance is awaited
             [s EXCEPT !.hook.provider = TRUE,
                       !.hook.signer = s.calls[c].address,
                       !.hook.account = s.calls[c].address,
                       !.hook.chainId = m.result,
                       !.hook.isConnected = TRUE,
                       !.calls[c].pc = "balance",
                       !.inbox = Append(@, Reply(c, "eth_getBalance", "1.2500"))]
        ELSE \* lines 47, 83, 95: setBalance, return true, finally
             [s EXCEPT !.hook.balance = m.result,
                       !.hook.isLoading = FALSE,
                       !.calls[c].pc = "done"]

backend == <<users, nextId, now, jwtSecret, reqs>>

\* the page takes the next message of the wallet: an accountsChanged event
AccountsChanged ==
    /\ inbox # <<>>
    /\ Head(inbox).type = "accountsChanged"
    /\ Becomes(handleAccountsChanged([Page EXCEPT !.inbox = Tail(@)], Head(inbox).accounts))
    /\ UNCHANGED <<backend, app>>

\* ... a chainChanged event
ChainChanged ==
    /\ inbox # <<>>
    /\ Head(inbox).type = "chainChanged"
    /\ Becomes(handleChainChanged([Page EXCEPT !.inbox = Tail(@)], Head(inbox).chainId))
    /\ UNCHANGED <<backend, app>>

\* ... the answer to a request
Resume ==
    /\ inbox # <<>>
    /\ Head(inbox).type = "response"
    /\ Becomes(resume([Page EXCEPT !.inbox = Tail(@)], Head(inbox)))
    /\ UNCHANGED <<backend, app>>

\* the user presses Connect, which calls connectWallet; WalletConnection shows the
\* button while the hook is not connected and disables it while the hook is loading
ConnectClick ==
    /\ Len(calls) < MaxCalls
    /\ ~hook.isConnected /\ ~hook.isLoading
    /\ Becomes(connectWallet(Page, "click"))
    /\ UNCHANGED <<backend, app>>

\* the user presses Disconnect, shown while the hook is connected, which calls
\* disconnectWallet
DisconnectClick ==
    /\ hook.isConnected
    /\ Becomes(disconnectWallet(Page))
    /\ UNCHANGED <<backend, app>>

\* in the wallet, the user selects another account for the site
SelectAccount(k) ==
    /\ wallet.installed /\ wallet.events < MaxEvents
    /\ wallet.accounts # <<>> /\ wallet.accounts[1] # k
    /\ wallet' = [wallet EXCEPT !.accounts = <<k>>, !.events = @ + 1]
    /\ inbox' = Append(inbox, [type |-> "accountsChanged", accounts |-> <<Reported(k)>>])
    /\ UNCHANGED <<backend, app, hook, calls>>

\* in the wallet, the user withdraws the site's access (or locks the wallet)
Revoke ==
    /\ wallet.installed /\ wallet.events < MaxEvents
    /\ wallet.accounts # <<>>
    /\ wallet' = [wallet EXCEPT !.accounts = <<>>, !.events = @ + 1]
    /\ inbox' = Append(inbox, [type |-> "accountsChanged", accounts |-> <<>>])
    /\ UNCHANGED <<backend, app, hook, calls>>

\* in the wallet, the user switches the network
SwitchChain(chainId) ==
    /\ wallet.installed /\ wallet.events < MaxEvents
    /\ wallet.chain # chainId
    /\ wallet' = [wallet EXCEPT !.chain = chainId, !.events = @ + 1]
    /\ inbox' = Append(inbox, [type |-> "chainChanged", chainId |-> chainId])
    /\ UNCHANGED <<backend, app, hook, calls>>

\* the user grants the access a prompt asks for: the wallet announces the account
\* and answers the request
Approve(k) ==
    /\ wallet.prompt # 0
    /\ wallet' = [wallet EXCEPT !.accounts = <<k>>, !.prompt = 0]
    /\ inbox' = inbox \o <<[type |-> "accountsChanged", accounts |-> <<Reported(k)>>],
                           Reply(wallet.prompt, "eth_requestAccounts", "granted")>>
    /\ UNCHANGED <<backend, app, hook, calls>>

\* the user dismisses the prompt: error 4001
Reject ==
    /\ wallet.prompt # 0
    /\ wallet' = [wallet EXCEPT !.prompt = 0]
    /\ inbox' = Append(inbox, Reply(wallet.prompt, "eth_requestAccounts", "rejected"))
    /\ UNCHANGED <<backend, app, hook, calls>>

\* -------------------------------------------------------------------- App
\* lines 149-156: the component's state at the first render, the token read from
\* localStorage (stored: "null" when the key is absent); demo is
\* VITE_ENABLE_DEMO_MODE === 'true'.  For the record: the data of the last
\* handleLogin call (last), how many there were (handled), how many fetch calls
\* were made (fetches), the last alert shown
AppInitial(demo, stored) ==
    [authOpen |-> FALSE, user |-> Null, walletUser |-> Null,
     token |-> IF stored = "null" THEN "" ELSE stored,
     stored |-> stored, route |-> "/", demo |-> demo,
     logins |-> <<>>, last |-> Null, handled |-> 0, fetches |-> 0, alert |-> "null"]

\* what the login form submits (AuthModal passes username and password)
FormLogins == {[username |-> n, password |-> p] : n \in {"alice", ""}, p \in {"pw", ""}}

\* what the wallet sign-in passes on: the address with the server's token and user
WalletLogins ==
    {[walletAddress |-> Reported("K1"), token |-> "wallet-jwt",
      user |-> [_id |-> 1, username |-> WalletPrefix \o Fill("c", SuffixLen)]]}

\* lines 204-210
DemoUser(username) ==
    [_id |-> "demo-user-123", username |-> username,
     email |-> <<username, "@demo.nexacred.com">>,
     firstName |-> "Demo", lastName |-> "User"]

\* a build in which the demo branch is absent
handleLogin_NoDemoBranch(a, loginData) ==
    IF "walletAddress" \in DOMAIN loginData /\ loginData.walletAddress # <<>>
    THEN [a EXCEPT !.token = loginData.token, !.stored = loginData.token,
                   !.user = loginData.user,
                   !.walletUser = [address |-> loginData.walletAddress],
                   !.authOpen = FALSE, !.route = "/dashboard"]
    ELSE [a EXCEPT !.fetches = @ + 1,
                   !.logins = Append(@, [username |-> loginData.username,
                                         password |-> loginData.password,
                                         pc |-> "fetch"])]

\* lines 187-225: handleLogin up to its return or its first await
handleLogin(a, loginData) ==
    IF "walletAddress" \in DOMAIN loginData /\ loginData.walletAddress # <<>>
    THEN [a EXCEPT !.token = loginData.token, !.stored = loginData.token,
                   !.user = loginData.user,
                   !.walletUser = [address |-> loginData.walletAddress],
                   !.authOpen = FALSE, !.route = "/dashboard"]
    ELSE IF a.demo
    THEN [a EXCEPT !.token = "demo-token-123", !.stored = "demo-token-123",
                   !.user = DemoUser(loginData.username),
                   !.walletUser = Null,
                   !.authOpen = FALSE, !.route = "/dashboard"]
    ELSE [a EXCEPT !.fetches = @ + 1,
                   !.logins = Append(@, [username |-> loginData.username,
                                         password |-> loginData.password,
                                         pc |-> "fetch"])]

\* the AuthModal or the wallet sign-in calls onLogin
HandleLogin(loginData) ==
    /\ app.handled < MaxLogins
    /\ app' = [handleLogin(app, loginData) EXCEPT !.last = loginData, !.handled = @ + 1]
    /\ UNCHANGED <<backend, hook, wallet, calls, inbox>>

\* lines 226-241: the answer to the fetch of login i arrives: 200 with a token and
\* the user, another status with an error, or no answer at all
LoginAnswer(i, outcome) ==
    /\ app.logins[i].pc = "fetch"
    /\ LET a == [app EXCEPT !.logins[i].pc = "done"]
       IN  app' = IF outcome = "ok"
                  THEN [a EXCEPT !.token = "login-jwt", !.stored = "login-jwt",
                                 !.user = [_id |-> 1, username |-> app.logins[i].username],
                                 !.walletUser = Null,
                                 !.authOpen = FALSE, !.route = "/dashboard"]
                  ELSE IF outcome = "refused"
                  THEN [a EXCEPT !.alert = "Invalid credentials"]
                  ELSE [a EXCEPT !.alert = "Login error: Failed to fetch"]
    /\ UNCHANGED <<backend, hook, wallet, calls, inbox>>

\* a logout that leaves out wallet.disconnectWallet()
HandleLogout_NoDisconnect ==
    /\ app' = [app EXCEPT !.user = Null, !.walletUser = Null, !.token = "",
                          !.stored = "null"]
    /\ UNCHANGED <<backend, hook, wallet, calls, inbox>>

\* lines 245-251: handleLogout, which also resets the wallet hook
HandleLogout ==
    /\ app' = [app EXCEPT !.user = Null, !.walletUser = Null, !.token = "",
                          !.stored = "null"]
    /\ Becomes(disconnectWallet(Page))
    /\ UNCHANGED backend

\* the Header opens the AuthModal, the modal's close button closes it
SetAuthOpen(open) ==
    /\ app.authOpen # open
    /\ app' = [app EXCEPT !.authOpen = open]
    /\ UNCHANGED <<backend, hook, wallet, calls, inbox>>

\* ---------------------------------------------------------- specification
\* a browser with no wallet extension
NoWallet == [installed |-> FALSE, accounts |-> <<>>, chain |-> "0x1", prompt |-> 0,
             events |-> 0]

\* a page just loaded in a browser without a wallet, the demo mode off
ClientIdle ==
    /\ hook = HookInitial
    /\ wallet = NoWallet
    /\ calls = <<>>
    /\ inbox = <<>>
    /\ app = AppInitial(FALSE, "null")

\* a server just started on an empty collection
ServerIdle ==
    /\ users = {}
    /\ nextId = 1
    /\ now = 0
    /\ jwtSecret = TRUE
    /\ reqs = <<>>

Init ==
    /\ ServerIdle
    /\ ClientIdle

\* the store answers every call
Next ==
    \/ \E body \in WalletBodies : WalletAuth(body)
    \/ \E body \in RegisterBodies : RegisterUser(body)
    \/ \E r \in DOMAIN reqs : WalletFindOne(r, TRUE)
    \/ \E r \in DOMAIN reqs, p \in RandomPasswords, t \in ClockReadings : WalletHash(r, p, t)
    \/ \E r \in DOMAIN reqs : WalletCreate(r, TRUE)
    \/ \E r \in DOMAIN reqs, t \in ClockReadings : WalletTouch(r, t)
    \/ \E r \in DOMAIN reqs : WalletSave(r, TRUE)
    \/ \E r \in DOMAIN reqs : RegisterFindOne(r, TRUE)
    \/ \E r \in DOMAIN reqs : RegisterCreate(r, TRUE)

Spec == Init /\ [][Next]_vars

\* the record registerUser stores for the first form of RegisterBodies
Registered ==
    UserCreate({}, [username |-> Alice, email |-> AliceMail,
                    passwordHash |-> bcryptHash("hunter2"), profile |-> WalletProfile],
               1).saved

\* the server comes up on a collection that holds one registered user
LoginInit ==
    /\ users = {Registered}
    /\ nextId = 2
    /\ now = 0
    /\ jwtSecret = TRUE
    /\ reqs = <<>>
    /\ ClientIdle

\* wallet sign-ins and password logins, the store answering every call
LoginNext ==
    \/ \E body \in HonestBodies : WalletAuth(body)
    \/ \E body \in LoginBodies : LoginUser(body)
    \/ \E r \in DOMAIN reqs : WalletFindOne(r, TRUE)
    \/ \E r \in DOMAIN reqs, p \in RandomPasswords, t \in ClockReadings : WalletHash(r, p, t)
    \/ \E r \in DOMAIN reqs : WalletCreate(r, TRUE)
    \/ \E r \in DOMAIN reqs, t \in ClockReadings : WalletTouch(r, t)
    \/ \E r \in DOMAIN reqs : WalletSave(r, TRUE)
    \/ \E r \in DOMAIN reqs : LoginFindOne(r, TRUE)

LoginSpec == LoginInit /\ [][LoginNext]_vars

\* the server is started with or without JWT_SECRET in its environment
FaultInit ==
    /\ users = {}
    /\ nextId = 1
    /\ now = 0
    /\ jwtSecret \in BOOLEAN
    /\ reqs = <<>>
    /\ ClientIdle

\* honest wallet sign-ins against a store any call to which may fail
FaultNext ==
    \/ \E body \in HonestBodies : WalletAuth(body)
    \/ \E r \in DOMAIN reqs, ok \in BOOLEAN : WalletFindOne(r, ok)
    \/ \E r \in DOMAIN reqs, p \in RandomPasswords, t \in ClockReadings : WalletHash(r, p, t)
    \/ \E r \in DOMAIN reqs, ok \in BOOLEAN : WalletCreate(r, ok)
    \/ \E r \in DOMAIN reqs, t \in ClockReadings : WalletTouch(r, t)
    \/ \E r \in DOMAIN reqs, ok \in BOOLEAN : WalletSave(r, ok)

FaultSpec == FaultInit /\ [][FaultNext]_vars

\* sign-ins the handler lets through and one it refuses (the second wallet's
\* signature under the first wallet's address)
AnsweringBodies ==
    HonestBodies
    \cup {[HonestBody(toLowerCase(AddrOf("K1")), "K1") EXCEPT !.signature = Signed("K2")]}

\* an awaited call of some request settles: the store answers, well or with an
\* error, or bcrypt returns the hash
Answer ==
    \/ \E r \in DOMAIN reqs, ok \in BOOLEAN : WalletFindOne(r, ok)
    \/ \E r \in DOMAIN reqs, p \in RandomPasswords, t \in ClockReadings : WalletHash(r, p, t)
    \/ \E r \in DOMAIN reqs, ok \in BOOLEAN : WalletCreate(r, ok)
    \/ \E r \in DOMAIN reqs, t \in ClockReadings : WalletTouch(r, t)
    \/ \E r \in DOMAIN reqs, ok \in BOOLEAN : WalletSave(r, ok)

AnsweringNext ==
    \/ \E body \in AnsweringBodies : WalletAuth(body)
    \/ Answer

\* every awaited call settles in the end, whatever its outcome
AnsweringSpec == FaultInit /\ [][AnsweringNext]_vars /\ WF_vars(Answer)

\* the store call request r awaits (lines 157, 165, 205) never settles: the handler
\* stays at its await
StoreHangs(r) ==
    /\ reqs[r].kind = "walletAuth"
    /\ reqs[r].pc \in {"findOne", "create", "save"}
    /\ reqs' = [reqs EXCEPT ![r].pc = "hung", ![r].ops = @ \cup {"hung"}]
    /\ UNCHANGED <<users, nextId, now, jwtSecret, frontend>>

HangNext ==
    \/ \E body \in AnsweringBodies : WalletAuth(body)
    \/ Answer
    \/ \E r \in DOMAIN reqs : StoreHangs(r)

\* every awaited call settles in the end, but for the store calls that never do
HangSpec == FaultInit /\ [][HangNext]_vars /\ WF_vars(Answer)

\* registrations that meet each other and the wallet sign-ins: the forms of
\* RegisterBodies, the first of them with its e-mail in capitals, and one under the
\* e-mail walletAuth gives the first wallet
SignupBodies ==
    RegisterBodies
    \cup {[username |-> <<"b", "o", "b">>, email |-> e, password |-> "hunter2",
           profile |-> WalletProfile] :
             e \in {[i \in DOMAIN AliceMail |-> toUpperChar(AliceMail[i])],
                    toLowerCase(AddrOf("K1")) \o WalletMailDomain}}

\* registrations and honest wallet sign-ins side by side, the store answering every
\* call
SignupNext ==
    \/ \E body \in SignupBodies : RegisterUser(body)
    \/ \E body \in FirstWalletBodies : WalletAuth(body)
    \/ \E r \in DOMAIN reqs : RegisterFindOne(r, TRUE)
    \/ \E r \in DOMAIN reqs : RegisterCreate(r, TRUE)
    \/ \E r \in DOMAIN reqs : WalletFindOne(r, TRUE)
    \/ \E r \in DOMAIN reqs, p \in RandomPasswords, t \in ClockReadings : WalletHash(r, p, t)
    \/ \E r \in DOMAIN reqs : WalletCreate(r, TRUE)
    \/ \E r \in DOMAIN reqs, t \in ClockReadings : WalletTouch(r, t)
    \/ \E r \in DOMAIN reqs : WalletSave(r, TRUE)

SignupSpec == Init /\ [][SignupNext]_vars

\* the record walletAuth stored for the first wallet on an earlier visit
Returning == UserCreate({}, NewWalletUser(AddrOf("K1"), "k3x9", 0), 1).saved

\* the server comes up on a collection that holds the first wallet's record
ReturningInit ==
    /\ users = {Returning}
    /\ nextId = 2
    /\ now = 0
    /\ jwtSecret = TRUE
    /\ reqs = <<>>
    /\ ClientIdle

\* wallet sign-ins of a wallet that has a record and of one that has none, the store
\* answering every call
ReturningNext ==
    \/ \E body \in WalletBodies : WalletAuth(body)
    \/ \E r \in DOMAIN reqs : WalletFindOne(r, TRUE)
    \/ \E r \in DOMAIN reqs, p \in RandomPasswords, t \in ClockReadings : WalletHash(r, p, t)
    \/ \E r \in DOMAIN reqs : WalletCreate(r, TRUE)
    \/ \E r \in DOMAIN reqs, t \in ClockReadings : WalletTouch(r, t)
    \/ \E r \in DOMAIN reqs : WalletSave(r, TRUE)

ReturningSpec == ReturningInit /\ [][ReturningNext]_vars

\* the page has just been mounted: the hook is in its initial state and the
\* auto-connect effect (lines 155-170) has asked the wallet, if there is one, for
\* the accounts the site is authorised for
HookInit ==
    /\ ServerIdle
    /\ wallet \in {NoWallet}
                  \cup {[NoWallet EXCEPT !.installed = TRUE, !.accounts = a] :
                           a \in {<<>>, <<"K1">>}}
    /\ hook = HookInitial
    /\ calls = <<>>
    /\ inbox = IF wallet.installed
               THEN <<Reply(0, "eth_accounts", ReportedAccounts(wallet))>>
               ELSE <<>>
    /\ app = AppInitial(FALSE, "null")

\* the page handles what the wallet sent, in the order it was sent
Deliver == AccountsChanged \/ ChainChanged \/ Resume

HookNext ==
    \/ AccountsChanged
    \/ ChainChanged
    \/ Resume
    \/ ConnectClick
    \/ DisconnectClick
    \/ \E k \in Keys : SelectAccount(k)
    \/ Revoke
    \/ \E chainId \in Chains : SwitchChain(chainId)
    \/ \E k \in Keys : Approve(k)
    \/ Reject

\* the browser's event loop runs every handler whose message has arrived; what the
\* user does, in the page or in the wallet, is up to the user
HookSpec == HookInit /\ [][HookNext]_vars /\ WF_vars(Deliver)

\* the page of a browser without a wallet
IdlePage == [hook |-> HookInitial, wallet |-> NoWallet, calls |-> <<>>, inbox |-> <<>>]

\* the page of a browser whose wallet has authorised the site for the first account,
\* once the auto-connect effect has run to its end
ConnectedPage ==
    [hook |-> [HookInitial EXCEPT !.isConnected = TRUE, !.account = AddrOf("K1"),
                                  !.signer = AddrOf("K1"), !.provider = TRUE,
                                  !.chainId = "0x1", !.balance = "1.2500"],
     wallet |-> [NoWallet EXCEPT !.installed = TRUE, !.accounts = <<"K1">>],
     calls |-> <<[pc |-> "done", address |-> AddrOf("K1"), by |-> "autoConnect",
                  cut |-> FALSE]>>,
     inbox |-> <<>>]

\* the App just rendered, with or without the demo mode and a token left in
\* localStorage by an earlier visit, the wallet hook idle or connected
AppInit ==
    /\ ServerIdle
    /\ \E s \in {IdlePage, ConnectedPage} :
          /\ hook = s.hook
          /\ wallet = s.wallet
          /\ calls = s.calls
          /\ inbox = s.inbox
    /\ app \in {AppInitial(demo, stored) : demo \in BOOLEAN, stored \in {"null", "login-jwt"}}

AppNext ==
    \/ \E loginData \in FormLogins \cup WalletLogins : HandleLogin(loginData)
    \/ \E i \in DOMAIN app.logins, outcome \in {"ok", "refused", "failed"} :
          LoginAnswer(i, outcome)
    \/ HandleLogout
    \/ \E open \in BOOLEAN : SetAuthOpen(open)

AppSpec == AppInit /\ [][AppNext]_vars

\* ------------------------------------------------------------ the claims
Wallet(r) == reqs[r].kind = "walletAuth"
Status(r) == reqs[r].res.status
Complete(r) == WalletFields \subseteq DOMAIN reqs[r].body
Arrived(r) == DOMAIN reqs \ {r}

\* 0x followed by exactly 40 hex digits
IsHexAddress(s) ==
    /\ Len(s) = 42
    /\ SubSeq(s, 1, 2) = <<"0", "x">>
    /\ \A i \in 3..42 :
          s[i] \in {"0", "1", "2", "3", "4", "5", "6", "7", "8", "9"}
                   \cup {"a", "b", "c", "d", "e", "f"} \cup {"A", "B", "C", "D", "E", "F"}

SameAddress(r1, r2) ==
    toLowerCase(reqs[r1].body.walletAddress) = toLowerCase(reqs[r2].body.walletAddress)

\* r2 arrived when r1 had ended
Later(r1, r2) == r1 \in reqs[r2].after

\* no other request arrived since those that had ended when r arrived
RunsAlone(r) == Arrived(r) \subseteq reqs[r].after

Succeeded(r) == Wallet(r) /\ Done(r) /\ Status(r) = 200
Key(r) == reqs[r].res.body.user._id

RecoveryThrows(r) == verifyMessage(reqs[r].body.message, reqs[r].body.signature).threw
RecoversAnother(r) ==
    LET v == verifyMessage(reqs[r].body.message, reqs[r].body.signature)
    IN  ~v.threw /\ toLowerCase(v.address) # toLowerCase(reqs[r].body.walletAddress)

\* C1: a walletAuth request with a well-formed address whose signature recovery
\* throws is rejected with 400 and makes no store call (no lookup, creation, update
\* or token).
C1_FailClosed ==
    \A r \in DOMAIN reqs :
        (Wallet(r) /\ Complete(r) /\ IsHexAddress(reqs[r].body.walletAddress)
            /\ RecoveryThrows(r))
        => (reqs[r].ops = {} /\ (Done(r) => Status(r) = 400))

\* C2: a walletAuth request with a well-formed address whose signature recovers to
\* another address (compared without regard to case) is answered 400 with an error
\* body, and it makes no store call: no record is created or updated.
C2_MismatchRejected ==
    \A r \in DOMAIN reqs :
        (Wallet(r) /\ Complete(r) /\ IsHexAddress(reqs[r].body.walletAddress)
            /\ RecoversAnother(r))
        => /\ Done(r)
           /\ Status(r) = 400
           /\ "error" \in DOMAIN reqs[r].res.body
           /\ reqs[r].ops = {}
           /\ reqs[r].user = Null

C2_Witness ==
    \E r \in DOMAIN reqs :
        /\ Wallet(r) /\ Complete(r) /\ IsHexAddress(reqs[r].body.walletAddress)
        /\ RecoversAnother(r)
        /\ reqs[r].body.signature.signer = "K2"
        /\ Done(r) /\ Status(r) = 400

\* the requests whose lookup found no record for address a
FirstTimers(a) ==
    {r \in DOMAIN reqs :
        Wallet(r) /\ "miss" \in reqs[r].ops /\ toLowerCase(reqs[r].body.walletAddress) = a}

StoredForms == {toLowerCase(a) : a \in WellFormedAddrs}

\* C3: when two or more walletAuth requests for the same new address all find no
\* record (and the store holds nothing but that address's record), each of them
\* that has ended was answered 200, and all with the same primaryKey.
C3_AllConcurrentSucceed ==
    \A a \in StoredForms :
        (Cardinality(FirstTimers(a)) >= 2
            /\ \A u \in users : HasWallet(u) /\ u.walletAddress = a)
        => \A r1, r2 \in FirstTimers(a) :
               (Done(r1) /\ Done(r2))
               => (Status(r1) = 200 /\ Status(r2) = 200 /\ Key(r1) = Key(r2))

\* C4: for every address, the store holds at most one record with that
\* walletAddress and at most one walletAuth request ever created one, however the
\* lookups and creations of concurrent first-time requests interleave.
C4_AtMostOneCreated ==
    \A a \in StoredForms :
        /\ Cardinality({u \in users : HasWallet(u) /\ u.walletAddress = a}) <= 1
        /\ Cardinality({r \in FirstTimers(a) : "created" \in reqs[r].ops}) <= 1

C4_Witness ==
    \E a \in StoredForms : \E r1, r2 \in FirstTimers(a) :
        /\ r1 # r2
        /\ "created" \in reqs[r1].ops
        /\ "create" \in reqs[r2].ops
        /\ Done(r2)

\* C5: a walletAuth request whose walletAddress is not 0x followed by exactly 40
\* hex digits is answered 400 and the signature verifier is never called for it.
C5_MalformedNeverVerified ==
    \A r \in DOMAIN reqs :
        (Wallet(r) /\ ("walletAddress" \notin DOMAIN reqs[r].body
                        \/ ~IsHexAddress(reqs[r].body.walletAddress)))
        => (Done(r) /\ Status(r) = 400 /\ reqs[r].verifierCalls = 0)

C5_Witness ==
    \E r \in DOMAIN reqs :
        /\ Wallet(r) /\ Complete(r)
        /\ Len(reqs[r].body.walletAddress) = 42
        /\ ~IsHexAddress(reqs[r].body.walletAddress)
        /\ Done(r) /\ Status(r) = 400 /\ reqs[r].verifierCalls = 0

RecordsFor(coll, a) == {u \in coll : HasWallet(u) /\ u.walletAddress = a}

\* r ended 200 having created the record of its address
FirstTime(r) == Succeeded(r) /\ "created" \in reqs[r].ops

\* C6 (what the responses show): a walletAuth that succeeds for address A after a
\* first-time walletAuth for A had ended successfully creates nothing and returns the
\* same primaryKey and the same walletConnectedAt; the store holds one record for A.
C6_SameRecord ==
    \A r1, r2 \in DOMAIN reqs :
        (FirstTime(r1) /\ Succeeded(r2) /\ Later(r1, r2) /\ SameAddress(r1, r2))
        => /\ "create" \notin reqs[r2].ops
           /\ Key(r2) = Key(r1)
           /\ reqs[r2].res.body.user.walletConnectedAt
                 = reqs[r1].res.body.user.walletConnectedAt
           /\ Cardinality(RecordsFor(users, toLowerCase(reqs[r1].body.walletAddress))) = 1

\* C6 (what the store shows): the step by which a walletAuth that ran with no other
\* request beside it succeeds for an existing record changes that record in
\* lastWalletActivity alone, to a time not earlier than before, and changes no other
\* record.
C6_OnlyActivityMoves ==
    \A r \in DOMAIN reqs :
        (Wallet(r) /\ reqs[r].pc = "save" /\ RunsAlone(r)
            /\ reqs'[r].pc = "done" /\ reqs'[r].res.status = 200)
        => \E u \in users : \E v \in users' :
              /\ u._id = reqs'[r].res.body.user._id
              /\ v._id = u._id
              /\ v = [u EXCEPT !.lastWalletActivity = v.lastWalletActivity]
              /\ v.lastWalletActivity >= u.lastWalletActivity
              /\ v.walletConnectedAt = u.walletConnectedAt
              /\ users' = (users \ {u}) \cup {v}

\* C6: sequential idempotence of walletAuth.
C6_SequentialIdempotence == []C6_SameRecord /\ [][C6_OnlyActivityMoves]_vars

C6_Witness ==
    \E r1, r2 \in DOMAIN reqs :
        /\ FirstTime(r1) /\ Succeeded(r2) /\ Later(r1, r2) /\ RunsAlone(r2)
        /\ reqs[r1].body = reqs[r2].body
        /\ "updated" \in reqs[r2].ops
        /\ \E u \in users : u._id = Key(r2) /\ u.lastWalletActivity > u.walletConnectedAt

\* C7: no two records of the store share a walletAddress, and every stored
\* walletAddress is in lower case.
C7_UniqueLowerCase ==
    /\ \A u1, u2 \in users :
          (HasWallet(u1) /\ HasWallet(u2) /\ u1.walletAddress = u2.walletAddress)
          => u1 = u2
    /\ \A u \in users :
          HasWallet(u) =>
              \A i \in DOMAIN u.walletAddress : u.walletAddress[i] \notin UpperSet

C7_Witness ==
    /\ \E u1, u2 \in users :
          HasWallet(u1) /\ HasWallet(u2) /\ u1.walletAddress # u2.walletAddress
    /\ \E r \in DOMAIN reqs :
          /\ FirstTime(r)
          /\ \E i \in DOMAIN reqs[r].body.walletAddress :
                reqs[r].body.walletAddress[i] \in UpperSet

\* r1 and r2 name the same address in different letter case
CaseVariants(r1, r2) ==
    SameAddress(r1, r2) /\ reqs[r1].body.walletAddress # reqs[r2].body.walletAddress

\* C8: of two walletAuth requests whose addresses differ only in letter case, the
\* one that arrives after the other has succeeded resolves by its lookup to the same
\* record and creates nothing; whenever both have succeeded they carry the same
\* primaryKey.
C8_CaseInsensitive ==
    \A r1, r2 \in DOMAIN reqs :
        (Succeeded(r1) /\ Wallet(r2) /\ Complete(r2) /\ CaseVariants(r1, r2))
        => /\ Succeeded(r2) => Key(r2) = Key(r1)
           /\ (Later(r1, r2) /\ "findOne" \in reqs[r2].ops)
              => /\ "hit" \in reqs[r2].ops
                 /\ "create" \notin reqs[r2].ops
                 /\ reqs[r2].user._id = Key(r1)

C8_Witness ==
    \E r1, r2 \in DOMAIN reqs :
        /\ FirstTime(r1) /\ Succeeded(r2) /\ Later(r1, r2) /\ CaseVariants(r1, r2)
        /\ \E i \in DOMAIN reqs[r1].body.walletAddress :
              reqs[r1].body.walletAddress[i] \in UpperSet
        /\ "updated" \in reqs[r2].ops

\* C9: a walletAuth request that lacks walletAddress, message or signature is
\* answered 400 and makes no store call: nothing is looked up, created or modified.
C9_MissingField ==
    \A r \in DOMAIN reqs :
        (Wallet(r) /\ ~Complete(r))
        => /\ Done(r)
           /\ Status(r) = 400
           /\ reqs[r].ops = {}
           /\ reqs[r].user = Null

C9_Witness ==
    /\ \E r1, r2 \in DOMAIN reqs :
          /\ Wallet(r1) /\ "message" \notin DOMAIN reqs[r1].body
          /\ Wallet(r2) /\ "signature" \notin DOMAIN reqs[r2].body
          /\ Done(r1) /\ Status(r1) = 400
          /\ Done(r2) /\ Status(r2) = 400
    /\ users = {}

\* C10: a (walletAddress, message, signature) triple that walletAuth accepted once
\* is not accepted again.
C10_NoReplay ==
    \A r1, r2 \in DOMAIN reqs :
        (r1 < r2 /\ Succeeded(r1) /\ Wallet(r2) /\ reqs[r2].body = reqs[r1].body
            /\ Later(r1, r2))
        => ~Succeeded(r2)

\* the field names a response carries: those of its body, of the user object in it
\* and of the token's payload
ResponseFields(body) ==
    DOMAIN body
    \cup (IF "user" \in DOMAIN body THEN DOMAIN body.user ELSE {})
    \cup (IF "token" \in DOMAIN body THEN DOMAIN body.token ELSE {})

\* C11: no response of walletAuth, success or error, for a record just created or
\* for one that existed, carries passwordHash: not in the body, not in its user
\* object, not in the token's payload.
C11_NoCredentialHash ==
    \A r \in DOMAIN reqs :
        (Wallet(r) /\ Done(r)) => "passwordHash" \notin ResponseFields(reqs[r].res.body)

C11_Witness ==
    \E r1, r2 \in DOMAIN reqs :
        /\ FirstTime(r1)
        /\ Succeeded(r2) /\ "updated" \in reqs[r2].ops
        /\ \E u \in users : u._id = Key(r2) /\ "passwordHash" \in DOMAIN u
        /\ "user" \in DOMAIN reqs[r1].res.body /\ "user" \in DOMAIN reqs[r2].res.body

Login(r) == reqs[r].kind = "loginUser"

\* the requests that were answered 200 with a token
Issued == {r \in DOMAIN reqs : Done(r) /\ Status(r) = 200 /\ "token" \in DOMAIN reqs[r].res.body}

\* exp - iat of the token in r's response, in seconds
Lifetime(r) == timespan(reqs[r].res.body.token.expiresIn)

\* C12: a token issued by walletAuth lives exactly 24 hours and one issued by
\* loginUser exactly 1 hour, so of a wallet token and a login token issued at the
\* same time the wallet token expires later.
C12_TokenLifetimes ==
    /\ \A r \in Issued :
          /\ Wallet(r) => Lifetime(r) = 24 * 3600
          /\ Login(r) => Lifetime(r) = 3600
    /\ \A w, l \in Issued :
          (Wallet(w) /\ Login(l))
          => \A iat \in 0..MaxTime : iat + Lifetime(w) > iat + Lifetime(l)

C12_Witness ==
    \E w, l \in Issued :
        /\ Wallet(w) /\ Login(l)
        /\ reqs[l].body.password = "hunter2"
        /\ reqs[l].user = Registered

\* the requests whose User.create stored a record
Creators == {r \in DOMAIN reqs : "created" \in reqs[r].ops}

\* C13: every record of the store has a passwordHash, a username, an e-mail and
\* every required profile field; and the records are exactly those of the requests
\* whose creation succeeded, one each: a creation that failed left nothing behind.
C13_NoPartialRecord ==
    /\ \A u \in users :
          /\ {"username", "email", "passwordHash", "profile"} \subseteq DOMAIN u
          /\ u.passwordHash.algorithm = "bcrypt"
          /\ RequiredProfile \subseteq DOMAIN u.profile
          /\ \E r \in Creators : reqs[r].user._id = u._id
    /\ Cardinality(users) = Cardinality(Creators)

C13_Witness ==
    \E r1, r2 \in DOMAIN reqs :
        /\ FirstTime(r1)
        /\ reqs[r2].kind = "registerUser" /\ Done(r2)
        /\ "ValidationError" \in reqs[r2].ops
        /\ Cardinality(users) = 1

\* the hook holds the account the wallet has selected for the site
Synced ==
    /\ wallet.accounts # <<>>
    /\ hook.isConnected
    /\ hook.account # NoAccount
    /\ toLowerCase(hook.account) = Reported(wallet.accounts[1])

\* the next thing the page handles is an accountsChanged event
EventPending == inbox # <<>> /\ Head(inbox).type = "accountsChanged"

\* ... with a list whose first account is not the hook's
SwitchPending ==
    /\ EventPending
    /\ Head(inbox).accounts # <<>>
    /\ Head(inbox).accounts[1] # hook.account

\* the next thing the page handles is the answer to the auto-connect effect's
\* question, and it names an authorised account
AutoPending ==
    /\ inbox # <<>> /\ Head(inbox).type = "response"
    /\ Head(inbox).call = 0 /\ Head(inbox).method = "eth_accounts"
    /\ Head(inbox).result # <<>>

\* the step in which the page handles accountsChanged with an empty list leaves the
\* hook disconnected, every connection field reset
C14_ResetOnEmpty ==
    (EventPending /\ Head(inbox).accounts = <<>> /\ inbox' = Tail(inbox))
    => /\ ~hook'.isConnected
       /\ hook'.account = NoAccount /\ hook'.signer = NoAccount /\ ~hook'.provider
       /\ hook'.chainId = "null" /\ hook'.balance = "0"

\* C14: the hook follows the wallet's account.  Handling accountsChanged with an
\* empty list resets the hook; once accountsChanged with another first account is
\* to be handled, the hook comes to hold the account the wallet has selected (unless
\* the site's access is withdrawn meanwhile); and so it does, with no click, once
\* the auto-connect effect has learnt of an authorised account at load.
C14_FollowsWallet ==
    /\ [][C14_ResetOnEmpty]_vars
    /\ (SwitchPending \/ AutoPending) ~> (Synced \/ wallet.accounts = <<>>)

C14_Witness ==
    /\ Synced
    /\ hook.account = AddrOf("K2")
    /\ Len(calls) = 2
    /\ calls[1].by = "autoConnect" /\ calls[2].by = "accountsChanged"
    /\ calls[2].pc = "done"

\* a login by username and password: the data names no wallet address
Traditional(loginData) == "walletAddress" \notin DOMAIN loginData

\* the step is a call of handleLogin with the data of a traditional login
TraditionalLoginStep == app'.handled = app.handled + 1 /\ Traditional(app'.last)

\* in demo mode a traditional login ends, within the call, with a token and a user
\* set, the same token in localStorage and walletUser null, and has made no fetch
C15_DemoLoginStep ==
    (app.demo /\ TraditionalLoginStep)
    => /\ app'.token # ""
       /\ app'.user # Null /\ app'.user.username = app'.last.username
       /\ app'.stored = app'.token
       /\ app'.walletUser = Null
       /\ app'.fetches = app.fetches /\ app'.logins = app.logins

\* C15: with the demo mode on, a traditional login succeeds whatever the username
\* and the password, empty ones included, and the backend is never contacted.
C15_DemoLogin ==
    /\ [][C15_DemoLoginStep]_vars
    /\ [](app.demo => app.fetches = 0)

C15_Witness ==
    /\ app.demo
    /\ app.handled = 2
    /\ Traditional(app.last) /\ app.last.username = "" /\ app.last.password = ""
    /\ app.token = "demo-token-123" /\ app.stored = "demo-token-123"
    /\ app.user = DemoUser("") /\ app.walletUser = Null
    /\ app.fetches = 0

\* the verifier returned an address, and it is the one the request claims
DefiniteMatch(r) ==
    LET v == verifyMessage(reqs[r].body.message, reqs[r].body.signature)
    IN  ~v.threw /\ toLowerCase(v.address) = toLowerCase(reqs[r].body.walletAddress)

\* C16 (terminal states): a request that has been answered keeps its answer and does
\* nothing more.
C16_Terminal ==
    \A r \in DOMAIN reqs : Done(r) => reqs'[r] = reqs[r]

\* C16 (the path): a walletAuth request answered 200 with a token has passed the
\* address check, had the verifier return the claimed address, and had its record
\* found or created.
C16_OrderedPath ==
    \A r \in DOMAIN reqs :
        Succeeded(r)
        => /\ IsHexAddress(reqs[r].body.walletAddress)
           /\ reqs[r].verifierCalls = 1
           /\ DefiniteMatch(r)
           /\ {"hit", "created"} \cap reqs[r].ops # {}

C16_TerminalAlways == [][C16_Terminal]_vars

\* C16: SessionIssued is reached only through AddressValidated, SignatureVerified
\* and IdentityResolved, and an answered request is in a terminal state.
C16_StateMachine == []C16_OrderedPath /\ C16_TerminalAlways

\* the placeholder name walletAuth derives for the address of request r
PlaceholderName(r) ==
    WalletPrefix \o toLowerCase(sliceLast(reqs[r].body.walletAddress, SuffixLen))

\* r is a first-time request whose placeholder name belongs to the record of
\* another identity
NameTaken(r) ==
    /\ Wallet(r) /\ "miss" \in reqs[r].ops
    /\ \E u \in users :
          /\ u.username = PlaceholderName(r)
          /\ ~HasWallet(u) \/ u.walletAddress # toLowerCase(reqs[r].body.walletAddress)

\* C17: a first-time walletAuth whose placeholder name (wallet_ and the last 8 hex
\* digits) is already another record's username still ends with an identity: it is
\* answered 200, under a username no other record has.
C17_NameCollisionResolved ==
    \A r \in DOMAIN reqs :
        (NameTaken(r) /\ Done(r))
        => /\ Status(r) = 200
           /\ \A u \in users : u.username = reqs[r].res.body.user.username => u._id = Key(r)

\* r has created its record or updated the one it found
Resolved(r) == Wallet(r) /\ {"created", "updated"} \cap reqs[r].ops # {}

C19_WalletCredentialUnusable ==
    \A r \in DOMAIN reqs :
        (Login(r) /\ Done(r)
            /\ \E u \in users : HasWallet(u) /\ u.username = reqs[r].body.username)
        => Status(r) # 200

\* the creation of r was refused because a record of its address had appeared
Raced(r) ==
    /\ Wallet(r) /\ "E11000" \in reqs[r].ops
    /\ RecordsFor(users, toLowerCase(reqs[r].body.walletAddress)) # {}

\* C20: a walletAuth request that met a store failure other than a uniqueness race
\* is answered 500 having made its one lookup and no retry; a request whose creation
\* lost a uniqueness race, and no other, has made exactly one further lookup.
C20_RetryOnlyOnRace ==
    \A r \in DOMAIN reqs :
        (Wallet(r) /\ Done(r))
        => /\ "fault" \in reqs[r].ops => (Status(r) = 500 /\ reqs[r].lookups = 1)
           /\ Raced(r) => reqs[r].lookups = 2
           /\ ~Raced(r) => reqs[r].lookups <= 1

\* C21: a walletAuth response with status 200 names, as user.walletAddress, the
\* request's address in lower case; and the token's claims (userId, username,
\* walletAddress) are those of the stored record whose _id the response returns.
C21_ResponseOfOneRecord ==
    \A r \in DOMAIN reqs :
        Succeeded(r)
        => LET session == reqs[r].res.body
           IN  /\ session.user.walletAddress = toLowerCase(reqs[r].body.walletAddress)
               /\ \E u \in users :
                     /\ u._id = session.user._id
                     /\ session.user.username = u.username
                     /\ session.token.userId = u._id
                     /\ session.token.username = u.username
                     /\ session.token.walletAddress = u.walletAddress
                     /\ u.walletAddress = session.user.walletAddress

C21_Witness ==
    \E r1, r2 \in DOMAIN reqs :
        /\ Succeeded(r1) /\ "updated" \in reqs[r1].ops
        /\ reqs[r1].body.walletAddress = UpperHex(AddrOf("K1"))
        /\ Key(r1) = Returning._id
        /\ FirstTime(r2)
        /\ reqs[r2].res.body.token.walletAddress = toLowerCase(AddrOf("K2"))

\* neither request had ended when the other arrived
Concurrent(r1, r2) == r1 # r2 /\ ~Later(r1, r2) /\ ~Later(r2, r1)

\* the lookup of r found the record the store held at the start
Returns(r) == Wallet(r) /\ "hit" \in reqs[r].ops /\ reqs[r].user._id = Returning._id

\* the time r has set as lastWalletActivity on its copy of the record
Stamp(r) == reqs[r].user.lastWalletActivity

\* no request but r1 and r2 has saved the record
NoOtherWriter(r1, r2) ==
    \A r \in DOMAIN reqs \ {r1, r2} : ~(Returns(r) /\ "save" \in reqs[r].ops)

\* C22: two concurrent walletAuth requests that found the record of their address
\* create nothing; each, once answered, was answered 200 with that record's _id; the
\* stored record differs from what it was in lastWalletActivity alone; and when both
\* are answered (and no third request has saved it), its lastWalletActivity is the
\* time one of the two wrote.
C22_LastWriterWins ==
    \A r1, r2 \in DOMAIN reqs :
        (Concurrent(r1, r2) /\ Returns(r1) /\ Returns(r2))
        => /\ \A r \in {r1, r2} :
                 /\ "create" \notin reqs[r].ops
                 /\ Done(r) => (Status(r) = 200 /\ Key(r) = Returning._id)
           /\ \E u \in users :
                 /\ RecordsFor(users, Returning.walletAddress) = {u}
                 /\ u = [Returning EXCEPT !.lastWalletActivity = u.lastWalletActivity]
                 /\ (Done(r1) /\ Done(r2) /\ NoOtherWriter(r1, r2))
                    => u.lastWalletActivity \in {Stamp(r1), Stamp(r2)}

C22_Witness ==
    \E r1, r2 \in DOMAIN reqs :
        /\ Concurrent(r1, r2) /\ Returns(r1) /\ Returns(r2)
        /\ Succeeded(r1) /\ Succeeded(r2)
        /\ "modified" \in reqs[r1].ops /\ "modified" \in reqs[r2].ops
        /\ Stamp(r1) < Stamp(r2)
        /\ \E u \in users : u._id = Returning._id /\ u.lastWalletActivity = Stamp(r1)

\* what a request does on the path of a record found, and on the path of a record
\* created
FetchPath == {"hit", "modified", "save", "updated"}
CreatePath == {"miss", "create", "created"}

\* a request is on one path only, and every _id handed out is still in the store
C23_OnePath ==
    /\ \A r \in DOMAIN reqs :
          Wallet(r) => (FetchPath \cap reqs[r].ops = {} \/ CreatePath \cap reqs[r].ops = {})
    /\ {u._id : u \in users} = 1..(nextId - 1)

\* a step removes no record and adds at most one; the record added is that of one
\* request, which had created none before and creates none after
C23_AddsOne ==
    /\ \A u \in users : \E v \in users' : v._id = u._id
    /\ Cardinality(users') <= Cardinality(users) + 1
    /\ Cardinality(users') = Cardinality(users) + 1
       => \E r \in DOMAIN reqs :
             /\ "created" \notin reqs[r].ops
             /\ "created" \in reqs'[r].ops /\ reqs'[r].pc = "done"
             /\ \A q \in DOMAIN reqs \ {r} : reqs'[q] = reqs[q]
    /\ \A r \in DOMAIN reqs : "created" \in reqs[r].ops => reqs'[r] = reqs[r]

\* C23: within one walletAuth request the record is either found and updated or
\* created, never both; a request creates at most one record; and no step of
\* walletAuth removes a record.
C23_FetchedOrCreated == []C23_OnePath /\ [][C23_AddsOne]_vars

C23_Witness ==
    \E r1, r2 \in DOMAIN reqs :
        /\ FirstTime(r1) /\ CreatePath \subseteq reqs[r1].ops
        /\ Succeeded(r2) /\ FetchPath \subseteq reqs[r2].ops
        /\ Key(r2) = Key(r1)
        /\ Cardinality(users) = 1

\* every request that has arrived has been answered
AllAnswered == \A r \in DOMAIN reqs : Done(r)

\* a request is answered when its handler has ended, with one of the three statuses
C24_Statuses ==
    \A r \in DOMAIN reqs :
        Wallet(r)
        => /\ Done(r) <=> reqs[r].res # NoResponse
           /\ Done(r) => Status(r) \in {200, 400, 500}

\* a response once sent is not sent again or changed
C24_OneResponse ==
    \A r \in DOMAIN reqs : reqs[r].res # NoResponse => reqs'[r].res = reqs[r].res

\* C24: when every awaited call settles in the end, every walletAuth request is
\* answered in the end, once, with status 200, 400 or 500.
C24_EveryRequestAnswered ==
    /\ []C24_Statuses
    /\ [][C24_OneResponse]_vars
    /\ []<>AllAnswered

C24_Witness ==
    \E r1, r2 \in DOMAIN reqs :
        /\ Done(r1) /\ Status(r1) = 500 /\ "fault" \in reqs[r1].ops
        /\ Done(r2) /\ Status(r2) = 400
        /\ users = {}

\* request r waits for a store call that never settles
Hung(r) == Wallet(r) /\ reqs[r].pc = "hung"

\* C25: a walletAuth request whose store call never completes is answered all the
\* same in the end (by a timeout), and then waits for nothing any more.
C25_TimesOut ==
    (\E r \in DOMAIN reqs : Hung(r)) ~> (\A r \in DOMAIN reqs : ~Hung(r))

\* C26: no response of a user endpoint carries a passwordHash, in its body, in the
\* user object of its body or in its token.
C26_NoHashInAnyResponse ==
    \A r \in DOMAIN reqs :
        Done(r) => "passwordHash" \notin ResponseFields(reqs[r].res.body)

\* call c makes a step
Advances(c) == calls'[c].pc # calls[c].pc

\* no step of a connectWallet call that a disconnect has overtaken sets the hook's
\* connection
C27_CutCallSetsNothing ==
    \A c \in DOMAIN calls :
        (calls[c].cut /\ Advances(c))
        => /\ hook'.isConnected = hook.isConnected
           /\ hook'.account = hook.account
           /\ hook'.signer = hook.signer

\* C27: when disconnectWallet runs while a connectWallet call is under way, the
\* call's completion does not set isConnected, account or signer again.
C27_DisconnectWins == [][C27_CutCallSetsNothing]_vars

\* C28: in every state of the hook, isConnected is true exactly when account,
\* provider and signer are all set; and when it is false none of them is.
C28_ConnectedIffSet ==
    /\ hook.isConnected
       <=> (hook.account # NoAccount /\ hook.provider /\ hook.signer # NoAccount)
    /\ ~hook.isConnected
       => (hook.account = NoAccount /\ ~hook.provider /\ hook.signer = NoAccount)

\* the hook is connected again by a call that a disconnect had overtaken
C28_Witness ==
    /\ hook.isConnected
    /\ hook.account = AddrOf("K1") /\ hook.signer = AddrOf("K1") /\ hook.provider
    /\ \E c \in DOMAIN calls : calls[c].cut /\ calls[c].pc = "done"
    /\ inbox = <<>>

\* C29: no two records of the store share a username, and no two share an e-mail,
\* however registerUser and walletAuth requests interleave.
C29_UniqueNameAndMail ==
    \A u1, u2 \in users :
        (u1.username = u2.username \/ u1.email = u2.email) => u1 = u2

\* a registration and a wallet sign-in that both looked up before either stored,
\* under the same e-mail: one stored its record, the other was refused by the index
C29_Witness ==
    \E r1, r2 \in DOMAIN reqs :
        /\ Concurrent(r1, r2)
        /\ reqs[r1].kind = "registerUser" /\ Wallet(r2)
        /\ reqs[r1].body.email = toLowerCase(reqs[r2].body.walletAddress) \o WalletMailDomain
        /\ "created" \in reqs[r1].ops
        /\ "miss" \in reqs[r2].ops /\ "E11000" \in reqs[r2].ops
        /\ Cardinality(users) = 1

\* the step of handleLogout leaves no session: token empty, user and walletUser
\* null, no token in localStorage, the wallet hook disconnected
C30_LogoutStep ==
    HandleLogout
    => /\ app'.token = "" /\ app'.user = Null /\ app'.walletUser = Null
       /\ app'.stored = "null"
       /\ ~hook'.isConnected /\ hook'.account = NoAccount /\ hook'.signer = NoAccount
       /\ ~hook'.provider

\* walletUser is set only in a session the wallet sign-in established
C30_WalletUserOfWalletSession ==
    app.walletUser # Null
    => \E loginData \in WalletLogins :
          /\ app.token = loginData.token
          /\ app.user = loginData.user
          /\ app.walletUser = [address |-> loginData.walletAddress]

\* C30: after handleLogout the application holds no session and the wallet hook is
\* disconnected, whichever login came before; and walletUser is non-null only while
\* the session is one the wallet sign-in established, a traditional login that
\* succeeds clearing it.
C30_LogoutClearsSession == [][C30_LogoutStep]_vars /\ []C30_WalletUserOfWalletSession

\* logged out of a wallet session with the hook connected before, after a
\* traditional login had succeeded earlier
C30_Witness ==
    /\ app.handled = 2 /\ app.last \in WalletLogins
    /\ \E i \in DOMAIN app.logins : app.logins[i].pc = "done"
    /\ app.token = "" /\ app.user = Null /\ app.walletUser = Null /\ app.stored = "null"
    /\ wallet.accounts # <<>> /\ calls # <<>>
    /\ hook = HookInitial

====
